---- MODULE Spec2Model ----
(***************************************************************************)
(* Model of backend/routes/api/bookings.js: the PUT /:bookingId and        *)
(* DELETE /:bookingId routes with their middleware chains.                  *)
(*                                                                         *)
(* Instants are milliseconds relative to an arbitrary epoch, so that the   *)
(* 86,300,000 ms buffer of the source keeps its value.  Request bodies     *)
(* carry parseable dates: new Date(x) is the instant x.                    *)
(***************************************************************************)
EXTENDS Integers, FiniteSets, TLC

(* ------------------------------------------------------------------ *)
(* Bounds and the domain of instants                                   *)
(* ------------------------------------------------------------------ *)

\* Number of requests served in one behaviour.
MaxRequests == 2

\* The literal 86300000 of noSameDates and validateBooking.
PROXIMITY_BUFFER_MS == 86300000

H12 == 12 * 3600000
H30 == 30 * 3600000
H36 == 36 * 3600000
D3 == 72 * 3600000

\* The instants the clock, the stored dates and the request bodies range over.
Times == {0, H12, PROXIMITY_BUFFER_MS, PROXIMITY_BUFFER_MS + 1, H30, D3}

\* The <<startDate, endDate>> pairs the table holds initially: short and
\* long stays, with starts at every distance the buffer distinguishes.
StoredDates ==
    {<<0, H12>>, <<H12, H30>>, <<0, PROXIMITY_BUFFER_MS + 1>>, <<0, D3>>,
     <<H12, D3>>, <<PROXIMITY_BUFFER_MS, D3>>,
     <<PROXIMITY_BUFFER_MS + 1, D3>>, <<H30, D3>>, <<H30, H36>>}

Users == {1, 2, 3}
SpotIds == {1, 2}
BookingIds == {1, 2, 3}
Reqs == {1, 2}
\* Requests the sequential specification serves.
SeqReqs == {1}

NoBooking == [id |-> 0]
Fields == {"startDate", "endDate"}

(* ------------------------------------------------------------------ *)
(* The database                                                        *)
(* ------------------------------------------------------------------ *)

\* Spot rows: only ownerId is read by these routes.
Spot == [s \in SpotIds |-> [id |-> s, ownerId |-> IF s = 1 THEN 2 ELSE 1]]

\* spotId and userId of the Booking rows; the routes never write them.
BookingSpotId(b) == IF b = 3 THEN 2 ELSE 1
BookingUserId(b) == CASE b = 1 -> 1 [] b = 2 -> 3 [] OTHER -> 2

VARIABLES
    bookings,   \* the Booking table: id -> row, or NoBooking when absent
    now,        \* the wall clock, what new Date() returns
    req,        \* per request: the middleware it is at, its inputs and locals
    served,     \* number of requests started
    accepted    \* history: the last accepted update and the table it left

vars == <<bookings, now, req, served, accepted>>

Row(b, s, e) ==
    [id |-> b, spotId |-> BookingSpotId(b), userId |-> BookingUserId(b),
     startDate |-> s, endDate |-> e]

\* Booking.findByPk(id): the row, or null.
FindByPk(id) == IF id \in BookingIds THEN bookings[id] ELSE NoBooking

\* The Booking include of the Spot queries: rows of the spot whose id is not
\* the booking's own (where: id: [Op.not]: booking.id).
IncludedBookingsMutNoExclude(booking) ==
    {b \in BookingIds : bookings[b] # NoBooking
                        /\ bookings[b].spotId = booking.spotId}

IncludedBookings(booking) ==
    {b \in BookingIds : bookings[b] # NoBooking
                        /\ bookings[b].spotId = booking.spotId
                        /\ b # booking.id}

IdleReq ==
    [kind |-> "none", pc |-> "idle", user |-> 1, bookingId |-> 1,
     startDate |-> 0, endDate |-> 0, now |-> 0, outcome |-> "none",
     errors |-> {}, at |-> "none", before |-> <<>>, validNow |-> 0,
     found |-> TRUE]

(* ------------------------------------------------------------------ *)
(* The conditions of the middleware, as the source writes them         *)
(* ------------------------------------------------------------------ *)

\* validateBooking, check('startDate'): start < now
StartInPastMutInclusive(start, n) == start <= n

StartInPast(start, n) == start < n

\* validateBooking, check('endDate'): end < now || end <= startBuffer
EndInvalidMutStrict(start, end, n) ==
    end < n \/ end < start + PROXIMITY_BUFFER_MS

EndInvalidMutNoBuffer(start, end, n) == end < n \/ end < start

EndInvalid(start, end, n) ==
    end < n \/ end <= start + PROXIMITY_BUFFER_MS

\* pastBookingEndCheck: pastEnd < now
PastEndMutNever(pastEnd, n) == FALSE

PastEndMutFuture(pastEnd, n) == pastEnd > n

PastEnd(pastEnd, n) == pastEnd < n

\* noSameDates: start within the buffer of an existing booking's start
SameStartMutStrict(start, bookingStart) ==
    /\ start > bookingStart - PROXIMITY_BUFFER_MS
    /\ start < bookingStart + PROXIMITY_BUFFER_MS

SameStart(start, bookingStart) ==
    /\ start >= bookingStart - PROXIMITY_BUFFER_MS
    /\ start <= bookingStart + PROXIMITY_BUFFER_MS

\* noSameDates: end within the buffer of an existing booking's end
SameEnd(end, bookingEnd) ==
    /\ end >= bookingEnd - PROXIMITY_BUFFER_MS
    /\ end <= bookingEnd + PROXIMITY_BUFFER_MS

\* noBookingAround: an existing booking lies inside the new range
AroundMutReversed(start, end, bookingStart, bookingEnd) ==
    start >= bookingStart /\ end <= bookingEnd

Around(start, end, bookingStart, bookingEnd) ==
    bookingStart >= start /\ bookingEnd <= end

\* bookingConflictCheck: a new date lies inside an existing booking
WithinMutStrict(newDate, bookingStart, bookingEnd) ==
    newDate > bookingStart /\ newDate < bookingEnd

Within(newDate, bookingStart, bookingEnd) ==
    newDate >= bookingStart /\ newDate <= bookingEnd

\* router.delete: now is inside the booking
StartedMutStrict(n, bookingStart, bookingEnd) ==
    n > bookingStart /\ n < bookingEnd

Started(n, bookingStart, bookingEnd) ==
    n >= bookingStart /\ n <= bookingEnd

\* bookingAuthorize: user.id !== booking.userId
NotHolderMutOwnerToo(user, booking) ==
    user # booking.userId /\ user # Spot[booking.spotId].ownerId

NotHolder(user, booking) == user # booking.userId

\* bookingDeleteAuthorize: user.id !== booking.userId && user.id !== spot.ownerId
NotHolderNorOwnerMutHolderOnly(user, booking, spot) == user # booking.userId

NotHolderNorOwnerMutNobody(user, booking, spot) == FALSE

NotHolderNorOwner(user, booking, spot) ==
    user # booking.userId /\ user # spot.ownerId

(* ------------------------------------------------------------------ *)
(* The error maps the conflict passes build (errRes.errors)            *)
(* ------------------------------------------------------------------ *)

\* validateBooking: the fields whose custom validator throws
ValidateBookingErrors(start, end, n) ==
    {f \in Fields : \/ f = "startDate" /\ StartInPast(start, n)
                    \/ f = "endDate" /\ EndInvalid(start, end, n)}

\* noSameDates: spot.Bookings.forEach over the included bookings
NoSameDatesErrors(start, end, others) ==
    {f \in Fields :
        \E b \in others :
            \/ f = "startDate" /\ SameStart(start, bookings[b].startDate)
            \/ f = "endDate" /\ SameEnd(end, bookings[b].endDate)}

\* noBookingAround: both fields are set by one enclosed booking
NoBookingAroundErrors(start, end, others) ==
    IF \E b \in others :
            Around(start, end, bookings[b].startDate, bookings[b].endDate)
    THEN Fields ELSE {}

\* bookingConflictCheck: one custom validator per field
BookingConflictErrors(start, end, others) ==
    {f \in Fields :
        \E b \in others :
            \/ f = "startDate"
               /\ Within(start, bookings[b].startDate, bookings[b].endDate)
            \/ f = "endDate"
               /\ Within(end, bookings[b].startDate, bookings[b].endDate)}

\* handleValidationErrors (utils/validation.js): a non-empty validation
\* result ends the request as a bad request.
HandleValidationErrors(errors) ==
    IF errors # {} THEN "InvalidDateShape" ELSE "next"

\* handleBookingConflict (utils/validation.js): a non-empty validation
\* result ends the request as a booking conflict.
HandleBookingConflict(errors) ==
    IF errors # {} THEN "ScheduleConflict" ELSE "next"

(* ------------------------------------------------------------------ *)
(* Initial state                                                       *)
(* ------------------------------------------------------------------ *)

\* Bookings 1 and 2 share spot 1 and hold any of the stored date pairs;
\* booking 3 is the only booking of spot 2.
Init ==
    /\ \E d1 \in StoredDates, d2 \in StoredDates :
          bookings = [b \in BookingIds |->
                         CASE b = 1 -> Row(1, d1[1], d1[2])
                           [] b = 2 -> Row(2, d2[1], d2[2])
                           [] OTHER -> Row(3, H12, D3)]
    /\ now = 0
    /\ req = [r \in Reqs |-> IdleReq]
    /\ served = 0
    /\ accepted = [id |-> 0, table |-> <<>>]

(* ------------------------------------------------------------------ *)
(* Requests                                                            *)
(* ------------------------------------------------------------------ *)

Terminal(r) == req[r].pc = "idle"

\* res.status(..).json(..) without next(), or an exception leaving the chain
Respond(r, outcome, errors) ==
    req' = [req EXCEPT ![r].pc = "done", ![r].outcome = outcome,
                       ![r].errors = errors, ![r].at = req[r].pc,
                       ![r].found = FindByPk(req[r].bookingId) # NoBooking]

\* the same, from a middleware that has read the clock
RespondAt(r, outcome, errors) ==
    req' = [req EXCEPT ![r].pc = "done", ![r].outcome = outcome,
                       ![r].errors = errors, ![r].at = req[r].pc,
                       ![r].found = FindByPk(req[r].bookingId) # NoBooking,
                       ![r].now = now]

\* next()
Continue(r, stage) == req' = [req EXCEPT ![r].pc = stage]

ContinueAt(r, stage) == req' = [req EXCEPT ![r].pc = stage, ![r].now = now]

\* An authenticated user sends PUT /:bookingId with a body of two dates.
StartPut(r) ==
    /\ Terminal(r)
    /\ served < MaxRequests
    /\ \E u \in Users, id \in BookingIds, s \in Times, e \in Times :
          req' = [req EXCEPT ![r] =
                    [kind |-> "put", pc |-> "bookingAuthorize", user |-> u,
                     bookingId |-> id, startDate |-> s, endDate |-> e,
                     now |-> 0, outcome |-> "none", errors |-> {},
                     at |-> "none", before |-> bookings, validNow |-> 0,
                     found |-> TRUE]]
    /\ served' = served + 1
    /\ UNCHANGED <<bookings, now, accepted>>

\* An authenticated user sends DELETE /:bookingId.
StartDelete(r) ==
    /\ Terminal(r)
    /\ served < MaxRequests
    /\ \E u \in Users, id \in BookingIds :
          req' = [req EXCEPT ![r] =
                    [kind |-> "delete", pc |-> "bookingDeleteAuthorize",
                     user |-> u, bookingId |-> id, startDate |-> 0,
                     endDate |-> 0, now |-> 0, outcome |-> "none",
                     errors |-> {}, at |-> "none", before |-> bookings,
                     validNow |-> 0, found |-> TRUE]]
    /\ served' = served + 1
    /\ UNCHANGED <<bookings, now, accepted>>

BookingAuthorize(r) ==
    /\ req[r].pc = "bookingAuthorize"
    /\ LET booking == FindByPk(req[r].bookingId) IN
          IF booking = NoBooking
          THEN Respond(r, "NotFound", {})
          ELSE IF NotHolder(req[r].user, booking)
               THEN Respond(r, "Forbidden", {})
               ELSE Continue(r, "validateBooking")
    /\ UNCHANGED <<bookings, now, served, accepted>>

ValidateBooking(r) ==
    /\ req[r].pc = "validateBooking"
    /\ LET errors == ValidateBookingErrors(req[r].startDate,
                                           req[r].endDate, now) IN
          IF HandleValidationErrors(errors) = "next"
          THEN req' = [req EXCEPT ![r].pc = "pastBookingEndCheck",
                                  ![r].now = now, ![r].validNow = now]
          ELSE req' = [req EXCEPT ![r].pc = "done",
                          ![r].outcome = HandleValidationErrors(errors),
                          ![r].errors = errors, ![r].at = req[r].pc,
                          ![r].now = now, ![r].validNow = now]
    /\ UNCHANGED <<bookings, now, served, accepted>>

PastBookingEndCheck(r) ==
    /\ req[r].pc = "pastBookingEndCheck"
    /\ LET booking == FindByPk(req[r].bookingId) IN
          IF booking = NoBooking
          THEN RespondAt(r, "TypeError", {})
          ELSE IF PastEnd(booking.endDate, now)
               THEN RespondAt(r, "PastEndImmutable", {})
               ELSE ContinueAt(r, "noSameDates")
    /\ UNCHANGED <<bookings, now, served, accepted>>

\* Spot.findByPk with a filtered include is an inner join: the spot is null
\* when no other booking of it exists, and spot.Bookings then throws.
NoSameDates(r) ==
    /\ req[r].pc = "noSameDates"
    /\ LET booking == FindByPk(req[r].bookingId) IN
          IF booking = NoBooking \/ IncludedBookings(booking) = {}
          THEN Respond(r, "TypeError", {})
          ELSE LET errors == NoSameDatesErrors(req[r].startDate,
                                 req[r].endDate, IncludedBookings(booking)) IN
               IF errors # {}
               THEN Respond(r, "ScheduleConflict", errors)
               ELSE Continue(r, "noBookingAround")
    /\ UNCHANGED <<bookings, now, served, accepted>>

NoBookingAround(r) ==
    /\ req[r].pc = "noBookingAround"
    /\ LET booking == FindByPk(req[r].bookingId) IN
          IF booking = NoBooking \/ IncludedBookings(booking) = {}
          THEN Respond(r, "TypeError", {})
          ELSE LET errors == NoBookingAroundErrors(req[r].startDate,
                                 req[r].endDate, IncludedBookings(booking)) IN
               IF errors # {}
               THEN Respond(r, "ScheduleConflict", errors)
               ELSE Continue(r, "bookingConflictCheck")
    /\ UNCHANGED <<bookings, now, served, accepted>>

\* A custom validator that throws on booking.spotId of null fails its field
\* like any other thrown error.
BookingConflictCheck(r) ==
    /\ req[r].pc = "bookingConflictCheck"
    /\ LET booking == FindByPk(req[r].bookingId)
           errors == IF booking = NoBooking
                     THEN Fields
                     ELSE BookingConflictErrors(req[r].startDate,
                              req[r].endDate, IncludedBookings(booking))
       IN  IF HandleBookingConflict(errors) = "next"
           THEN Continue(r, "putHandler")
           ELSE Respond(r, HandleBookingConflict(errors), errors)
    /\ UNCHANGED <<bookings, now, served, accepted>>

\* updatedBooking.set({startDate: start || .., endDate: end || ..}); save()
\* A Date object is truthy, so both new dates are always taken.
PutHandlerMutRecheck(r) ==
    /\ req[r].pc = "putHandler"
    /\ LET updatedBooking == FindByPk(req[r].bookingId) IN
          IF updatedBooking = NoBooking
          THEN /\ Respond(r, "TypeError", {})
               /\ UNCHANGED <<bookings, accepted>>
          ELSE LET errors == BookingConflictErrors(req[r].startDate,
                     req[r].endDate, IncludedBookings(updatedBooking)) IN
               IF errors # {}
               THEN /\ Respond(r, "ScheduleConflict", errors)
                    /\ UNCHANGED <<bookings, accepted>>
               ELSE /\ bookings' = [bookings EXCEPT ![req[r].bookingId] =
                                      [updatedBooking EXCEPT
                                         !.startDate = req[r].startDate,
                                         !.endDate = req[r].endDate]]
                    /\ accepted' = [id |-> req[r].bookingId,
                                    table |-> bookings']
                    /\ Respond(r, "Done", {})
    /\ UNCHANGED <<now, served>>

PutHandler(r) ==
    /\ req[r].pc = "putHandler"
    /\ LET updatedBooking == FindByPk(req[r].bookingId) IN
          IF updatedBooking = NoBooking
          THEN /\ Respond(r, "TypeError", {})
               /\ UNCHANGED <<bookings, accepted>>
          ELSE /\ bookings' = [bookings EXCEPT ![req[r].bookingId] =
                                 [updatedBooking EXCEPT
                                    !.startDate = req[r].startDate,
                                    !.endDate = req[r].endDate]]
               /\ accepted' = [id |-> req[r].bookingId, table |-> bookings']
               /\ Respond(r, "Done", {})
    /\ UNCHANGED <<now, served>>

BookingDeleteAuthorize(r) ==
    /\ req[r].pc = "bookingDeleteAuthorize"
    /\ LET booking == FindByPk(req[r].bookingId) IN
          IF booking = NoBooking
          THEN Respond(r, "NotFound", {})
          ELSE IF NotHolderNorOwner(req[r].user, booking, Spot[booking.spotId])
               THEN Respond(r, "Forbidden", {})
               ELSE Continue(r, "deleteHandler")
    /\ UNCHANGED <<bookings, now, served, accepted>>

DeleteHandler(r) ==
    /\ req[r].pc = "deleteHandler"
    /\ LET booking == FindByPk(req[r].bookingId) IN
          IF booking = NoBooking
          THEN /\ RespondAt(r, "TypeError", {})
               /\ UNCHANGED bookings
          ELSE IF Started(now, booking.startDate, booking.endDate)
               THEN /\ RespondAt(r, "InProgressImmutable", {})
                    /\ UNCHANGED bookings
               ELSE /\ bookings' = [bookings EXCEPT
                                       ![req[r].bookingId] = NoBooking]
                    /\ RespondAt(r, "Done", {})
    /\ UNCHANGED <<now, served, accepted>>

\* The response has been sent; the request and its locals are dropped.
EndRequest(r) ==
    /\ req[r].pc = "done"
    /\ req' = [req EXCEPT ![r] = IdleReq]
    /\ UNCHANGED <<bookings, now, served, accepted>>

\* Time passes between any two steps.
Tick ==
    /\ \E t \in Times :
          /\ t > now
          /\ \A u \in Times : u > now => t <= u
          /\ now' = t
    /\ UNCHANGED <<bookings, req, served, accepted>>

Serve(r) ==
    \/ StartPut(r)
    \/ StartDelete(r)
    \/ BookingAuthorize(r)
    \/ ValidateBooking(r)
    \/ PastBookingEndCheck(r)
    \/ NoSameDates(r)
    \/ NoBookingAround(r)
    \/ BookingConflictCheck(r)
    \/ PutHandler(r)
    \/ BookingDeleteAuthorize(r)
    \/ DeleteHandler(r)
    \/ EndRequest(r)

\* One request at a time: each request runs to its response before the
\* next one starts.
Next == Tick \/ \E r \in SeqReqs : Serve(r)

Spec == Init /\ [][Next]_vars

(* ------------------------------------------------------------------ *)
(* Two requests under way at once                                      *)
(* Every await of a middleware lets the other request run; the model   *)
(* interleaves whole middleware.  To keep the state space small the    *)
(* concurrent requests address the two bookings of spot 1 with a few   *)
(* dates.                                                              *)
(* ------------------------------------------------------------------ *)

ConcIds == {1, 2}
ConcTimes == {0, PROXIMITY_BUFFER_MS + 1, D3}

InitConc ==
    /\ bookings = [b \in BookingIds |->
                      CASE b = 1 -> Row(1, 0, H12)
                        [] b = 2 -> Row(2, H30, D3)
                        [] OTHER -> Row(3, H12, D3)]
    /\ now = 0
    /\ req = [r \in Reqs |-> IdleReq]
    /\ served = 0
    /\ accepted = [id |-> 0, table |-> <<>>]

StartPutConc(r) ==
    /\ Terminal(r)
    /\ served < MaxRequests
    /\ \E u \in Users, id \in ConcIds, s \in ConcTimes, e \in ConcTimes :
          req' = [req EXCEPT ![r] =
                    [kind |-> "put", pc |-> "bookingAuthorize", user |-> u,
                     bookingId |-> id, startDate |-> s, endDate |-> e,
                     now |-> 0, outcome |-> "none", errors |-> {},
                     at |-> "none", before |-> bookings, validNow |-> 0,
                     found |-> TRUE]]
    /\ served' = served + 1
    /\ UNCHANGED <<bookings, now, accepted>>

StartDeleteConc(r) ==
    /\ Terminal(r)
    /\ served < MaxRequests
    /\ \E u \in Users, id \in ConcIds :
          req' = [req EXCEPT ![r] =
                    [kind |-> "delete", pc |-> "bookingDeleteAuthorize",
                     user |-> u, bookingId |-> id, startDate |-> 0,
                     endDate |-> 0, now |-> 0, outcome |-> "none",
                     errors |-> {}, at |-> "none", before |-> bookings,
                     validNow |-> 0, found |-> TRUE]]
    /\ served' = served + 1
    /\ UNCHANGED <<bookings, now, accepted>>

ServeConc(r) ==
    \/ StartPutConc(r)
    \/ StartDeleteConc(r)
    \/ BookingAuthorize(r)
    \/ ValidateBooking(r)
    \/ PastBookingEndCheck(r)
    \/ NoSameDates(r)
    \/ NoBookingAround(r)
    \/ BookingConflictCheck(r)
    \/ PutHandler(r)
    \/ BookingDeleteAuthorize(r)
    \/ DeleteHandler(r)
    \/ EndRequest(r)

NextConc == Tick \/ \E r \in Reqs : ServeConc(r)

SpecConc == InitConc /\ [][NextConc]_vars

(* ------------------------------------------------------------------ *)
(* Properties of the sequential specification                          *)
(* Each is stated of request 1 once it has responded: req[1].before is *)
(* the table the request found, req[1].at the middleware that          *)
(* responded, req[1].now the clock that middleware (or the last one    *)
(* before it that looked at the clock) read.                           *)
(* ------------------------------------------------------------------ *)

\* The row request r addressed, as the table held it when r started.
Target(r) == req[r].before[req[r].bookingId]

Responded(r, kind) == req[r].pc = "done" /\ req[r].kind = kind

\* C1: an update by the holder of an existing booking whose stored end is
\* strictly before now ends as PastEndImmutable, whatever the new dates are.
C1_PastEndBeforeDateShape ==
    ( /\ Responded(1, "put")
      /\ Target(1) # NoBooking
      /\ req[1].user = Target(1).userId
      /\ req[1].at # "bookingAuthorize"
      /\ Target(1).endDate < req[1].now )
    => req[1].outcome = "PastEndImmutable"

\* C2: an update by anyone but the holder (the spot's owner included) ends
\* as Forbidden, an update of a missing booking as NotFound, for all
\* proposed dates, and the table is left as it was.
C2_ModifyAuthorization ==
    Responded(1, "put") =>
        /\ Target(1) = NoBooking =>
              /\ req[1].outcome = "NotFound"
              /\ req[1].at = "bookingAuthorize"
              /\ bookings = req[1].before
        /\ (Target(1) # NoBooking /\ req[1].user # Target(1).userId) =>
              /\ req[1].outcome = "Forbidden"
              /\ req[1].at = "bookingAuthorize"
              /\ bookings = req[1].before

\* C2 witness: the owner of the spot asked to move a guest's booking to
\* well-formed future dates and was refused.
C2_Witness ==
    /\ Responded(1, "put")
    /\ Target(1) # NoBooking
    /\ req[1].user = Spot[Target(1).spotId].ownerId
    /\ req[1].startDate = H30 /\ req[1].endDate = D3
    /\ req[1].outcome = "Forbidden"

\* C3: a cancellation by someone who is neither the holder nor the owner of
\* the spot ends as Forbidden and the booking stays, whenever it is asked.
C3_CancelForbidden ==
    ( /\ Responded(1, "delete")
      /\ Target(1) # NoBooking
      /\ req[1].user # Target(1).userId
      /\ req[1].user # Spot[Target(1).spotId].ownerId )
    => /\ req[1].outcome = "Forbidden"
       /\ bookings = req[1].before

\* C3 witness: a stranger was refused the cancellation of a booking that
\* has not started yet.
C3_Witness ==
    /\ Responded(1, "delete")
    /\ Target(1) # NoBooking
    /\ req[1].user # Target(1).userId
    /\ req[1].user # Spot[Target(1).spotId].ownerId
    /\ Target(1).startDate > now
    /\ req[1].outcome = "Forbidden"

\* C4: a cancellation by the spot's owner, who is not the holder, of a
\* booking that starts strictly after now succeeds: the booking is removed
\* and every other row is as before.
C4_OwnerCancels ==
    ( /\ Responded(1, "delete")
      /\ Target(1) # NoBooking
      /\ req[1].user = Spot[Target(1).spotId].ownerId
      /\ req[1].user # Target(1).userId
      /\ Target(1).startDate > req[1].now )
    => /\ req[1].outcome = "Done"
       /\ bookings = [req[1].before EXCEPT ![req[1].bookingId] = NoBooking]

\* C4 witness: the owner cancelled a guest's future booking.
C4_Witness ==
    /\ Responded(1, "delete")
    /\ Target(1) # NoBooking
    /\ req[1].user = Spot[Target(1).spotId].ownerId
    /\ req[1].user # Target(1).userId
    /\ Target(1).startDate > req[1].now
    /\ req[1].outcome = "Done"
    /\ bookings[req[1].bookingId] = NoBooking

\* C5: an authorized cancellation with start <= now <= end ends as
\* InProgressImmutable and destroys nothing.
C5_InProgressImmutable ==
    ( /\ Responded(1, "delete")
      /\ Target(1) # NoBooking
      /\ \/ req[1].user = Target(1).userId
         \/ req[1].user = Spot[Target(1).spotId].ownerId
      /\ Target(1).startDate <= req[1].now
      /\ req[1].now <= Target(1).endDate )
    => /\ req[1].outcome = "InProgressImmutable"
       /\ bookings = req[1].before

\* C5 witness: a cancellation at the very instant the booking ends was
\* refused.
C5_Witness ==
    /\ Responded(1, "delete")
    /\ Target(1) # NoBooking
    /\ req[1].at = "deleteHandler"
    /\ req[1].now = Target(1).endDate
    /\ req[1].outcome = "InProgressImmutable"

\* Rows of the same spot as the row request r addressed, other than it.
Others(r) ==
    {b \in BookingIds : /\ b # req[r].bookingId
                        /\ req[r].before[b] # NoBooking
                        /\ req[r].before[b].spotId = Target(r).spotId}

\* Request r proposes the dates its row already holds.
OwnDates(r) ==
    /\ Target(r) # NoBooking
    /\ req[r].startDate = Target(r).startDate
    /\ req[r].endDate = Target(r).endDate

\* Request r got as far as the buffered pass.
ReachedConflictPasses(r) ==
    req[r].at \in {"noSameDates", "noBookingAround", "bookingConflictCheck",
                   "putHandler"}

Dist(a, b) == IF a >= b THEN a - b ELSE b - a

\* Row `row` trips one of the three passes for the interval s..e.
Trips(s, e, row) ==
    \/ Dist(s, row.startDate) <= PROXIMITY_BUFFER_MS
    \/ Dist(e, row.endDate) <= PROXIMITY_BUFFER_MS
    \/ (row.startDate >= s /\ row.endDate <= e)
    \/ (row.startDate <= s /\ s <= row.endDate)
    \/ (row.startDate <= e /\ e <= row.endDate)

\* C6 as stated: updating A to its own dates while a B of the same spot
\* starts within the buffer of A's start reports a start conflict.
C6_OwnDatesAlwaysConflict ==
    ( /\ Responded(1, "put")
      /\ Target(1) # NoBooking
      /\ req[1].user = Target(1).userId
      /\ OwnDates(1)
      /\ Target(1).startDate < Target(1).endDate
      /\ \E b \in Others(1) :
            Dist(Target(1).startDate, req[1].before[b].startDate)
                <= PROXIMITY_BUFFER_MS )
    => /\ req[1].outcome = "ScheduleConflict"
       /\ "startDate" \in req[1].errors

\* C6 amended: when an update of A to its own dates reaches the buffered
\* pass, it ends there as ScheduleConflict with startDate flagged if some B
\* of the same spot starts within PROXIMITY_BUFFER_MS of A's start (both
\* ends inclusive, so at 12h), and the buffered pass does not flag startDate
\* if every B starts further away (so at 30h).
C6_BufferedStartConflict ==
    ( /\ Responded(1, "put")
      /\ ReachedConflictPasses(1)
      /\ OwnDates(1) )
    => /\ (\E b \in Others(1) :
              Dist(Target(1).startDate, req[1].before[b].startDate)
                  <= PROXIMITY_BUFFER_MS)
          => /\ req[1].at = "noSameDates"
             /\ req[1].outcome = "ScheduleConflict"
             /\ "startDate" \in req[1].errors
       /\ ( /\ req[1].at = "noSameDates"
            /\ \A b \in Others(1) :
                  Dist(Target(1).startDate, req[1].before[b].startDate)
                      > PROXIMITY_BUFFER_MS )
          => "startDate" \notin req[1].errors

\* C6 witness: A and B start exactly PROXIMITY_BUFFER_MS apart and the
\* update of A to its own dates was refused with startDate flagged.
C6_Witness ==
    /\ Responded(1, "put")
    /\ req[1].at = "noSameDates"
    /\ OwnDates(1)
    /\ \E b \in Others(1) :
          Dist(Target(1).startDate, req[1].before[b].startDate)
              = PROXIMITY_BUFFER_MS
    /\ \A b \in Others(1) :
          Dist(Target(1).startDate, req[1].before[b].startDate)
              >= PROXIMITY_BUFFER_MS
    /\ req[1].outcome = "ScheduleConflict"
    /\ "startDate" \in req[1].errors

\* C7: an update of a booking to its unchanged dates never ends as
\* ScheduleConflict unless another booking of the same spot trips a pass;
\* the conflict report is then empty.
C7_NoSelfConflict ==
    ( /\ Responded(1, "put")
      /\ Target(1) # NoBooking
      /\ OwnDates(1)
      /\ \A b \in Others(1) :
            ~Trips(req[1].startDate, req[1].endDate, req[1].before[b]) )
    => /\ req[1].outcome # "ScheduleConflict"
       /\ ReachedConflictPasses(1) => req[1].errors = {}

\* C7 witness: with another booking on the spot, an update to the unchanged
\* dates went through all three passes and was saved.
C7_Witness ==
    /\ Responded(1, "put")
    /\ OwnDates(1)
    /\ Others(1) # {}
    /\ req[1].at = "putHandler"
    /\ req[1].outcome = "Done"
    /\ req[1].errors = {}

\* C8: with a start that is not before now, end = start + PROXIMITY_BUFFER_MS
\* is refused as InvalidDateShape and end = start + PROXIMITY_BUFFER_MS + 1
\* passes validateBooking.
C8_MinimumDuration ==
    /\ ( /\ Responded(1, "put")
         /\ req[1].at # "bookingAuthorize"
         /\ req[1].endDate = req[1].startDate + PROXIMITY_BUFFER_MS )
       => /\ req[1].outcome = "InvalidDateShape"
          /\ req[1].at = "validateBooking"
          /\ "endDate" \in req[1].errors
    /\ ( /\ Responded(1, "put")
         /\ req[1].at = "validateBooking"
         /\ req[1].endDate = req[1].startDate + PROXIMITY_BUFFER_MS + 1 )
       => /\ req[1].startDate < req[1].now
          /\ "startDate" \in req[1].errors
    /\ req[1].pc = "pastBookingEndCheck"
       => req[1].endDate > req[1].startDate + PROXIMITY_BUFFER_MS

\* C8 witness: a request starting now and ending one millisecond past the
\* buffer has passed validateBooking.
C8_Witness ==
    /\ req[1].pc = "pastBookingEndCheck"
    /\ req[1].startDate = req[1].now
    /\ req[1].endDate = req[1].startDate + PROXIMITY_BUFFER_MS + 1

\* C9: once an update to (s, e) was accepted and saved, asking again for
\* (s, e) on the same booking with the table unchanged never ends as
\* ScheduleConflict: the conflict passes report nothing.
C9_Idempotent ==
    ( /\ Responded(1, "put")
      /\ accepted.id = req[1].bookingId
      /\ accepted.table = req[1].before
      /\ OwnDates(1)
      /\ req[1].at # "bookingAuthorize" )
    => /\ req[1].outcome \in {"Done", "InvalidDateShape", "PastEndImmutable"}
       /\ ReachedConflictPasses(1) => req[1].errors = {}

\* C9 witness: the second of two requests repeated the dates the first one
\* saved, and was saved again.
C9_Witness ==
    /\ Responded(1, "put")
    /\ served = 2
    /\ accepted.id = req[1].bookingId
    /\ accepted.table = req[1].before
    /\ OwnDates(1)
    /\ req[1].outcome = "Done"

\* C10: every stored booking has start < end, and what an accepted update
\* wrote has end > start + PROXIMITY_BUFFER_MS.
C10_StartBeforeEnd ==
    /\ \A b \in BookingIds :
          bookings[b] # NoBooking
          => bookings[b].startDate < bookings[b].endDate
    /\ (Responded(1, "put") /\ req[1].outcome = "Done")
       => /\ bookings[req[1].bookingId].startDate = req[1].startDate
          /\ bookings[req[1].bookingId].endDate = req[1].endDate
          /\ req[1].endDate > req[1].startDate + PROXIMITY_BUFFER_MS

\* C10 witness: an accepted update changed the dates of a booking.
C10_Witness ==
    /\ Responded(1, "put")
    /\ req[1].outcome = "Done"
    /\ bookings[req[1].bookingId] # Target(1)
    /\ bookings[req[1].bookingId].startDate = req[1].startDate

\* The kinds of failure a request can be answered with.
FailureKinds ==
    {"NotFound", "Forbidden", "PastEndImmutable", "InvalidDateShape",
     "ScheduleConflict", "InProgressImmutable"}

\* C11: a request that ends in a failure kind leaves the table as it found
\* it, the table is untouched while a request is under way, and a row is
\* saved or destroyed only by the last handler of a request whose actor was
\* authorized, whose dates passed validateBooking, whose row had not ended
\* and whose dates tripped no pass.
C11_MutationOnlyAfterAllChecks ==
    /\ (req[1].pc = "done" /\ req[1].outcome \in FailureKinds)
       => bookings = req[1].before
    /\ req[1].pc \notin {"idle", "done"} => bookings = req[1].before
    /\ (req[1].pc = "done" /\ bookings # req[1].before)
       => /\ req[1].outcome = "Done"
          /\ req[1].at \in {"putHandler", "deleteHandler"}
    /\ (Responded(1, "put") /\ req[1].outcome = "Done")
       => /\ req[1].at = "putHandler"
          /\ req[1].user = Target(1).userId
          /\ req[1].startDate >= req[1].validNow
          /\ req[1].endDate > req[1].startDate + PROXIMITY_BUFFER_MS
          /\ Target(1).endDate >= req[1].now
          /\ \A b \in Others(1) :
                ~Trips(req[1].startDate, req[1].endDate, req[1].before[b])
    /\ (Responded(1, "delete") /\ req[1].outcome = "Done")
       => /\ req[1].at = "deleteHandler"
          /\ \/ req[1].user = Target(1).userId
             \/ req[1].user = Spot[Target(1).spotId].ownerId
          /\ \/ req[1].now < Target(1).startDate
             \/ req[1].now > Target(1).endDate

\* C11 witness: an update was refused as ScheduleConflict by the last of
\* the passes, after time had passed since the request came in.
C11_Witness ==
    /\ Responded(1, "put")
    /\ req[1].outcome = "ScheduleConflict"
    /\ req[1].at = "bookingConflictCheck"
    /\ bookings = req[1].before
    /\ req[1].now > 0

\* C12: validateBooking refuses a start strictly before now as
\* InvalidDateShape and does not refuse a start equal to now for that; so
\* no accepted update writes a start earlier than the now it was
\* validated at.
C12_StartNotInPast ==
    /\ (Responded(1, "put") /\ req[1].at = "validateBooking")
       => /\ req[1].outcome = "InvalidDateShape"
          /\ bookings = req[1].before
          /\ "startDate" \in req[1].errors
                <=> req[1].startDate < req[1].validNow
    /\ ( /\ req[1].kind = "put"
         /\ req[1].pc \in {"pastBookingEndCheck", "noSameDates",
                           "noBookingAround", "bookingConflictCheck",
                           "putHandler"} )
       => req[1].startDate >= req[1].validNow
    /\ (Responded(1, "put") /\ req[1].outcome = "Done")
       => /\ bookings[req[1].bookingId].startDate >= req[1].validNow
          /\ bookings[req[1].bookingId].startDate = req[1].startDate

\* C12 witness: an update whose start is the very instant it was validated
\* at, later than the epoch, was saved.
C12_Witness ==
    /\ Responded(1, "put")
    /\ req[1].outcome = "Done"
    /\ req[1].startDate = req[1].validNow
    /\ req[1].validNow > 0

\* C15 as stated: an update of the only booking of its spot that passed
\* authorization, validateBooking and the past-end check is saved.
C15_EmptyComparisonSetIsSaved ==
    ( /\ Responded(1, "put")
      /\ ReachedConflictPasses(1)
      /\ Others(1) = {} )
    => /\ req[1].outcome = "Done"
       /\ req[1].errors = {}
       /\ bookings[req[1].bookingId].startDate = req[1].startDate
       /\ bookings[req[1].bookingId].endDate = req[1].endDate

\* Request r got as far as the enclosure pass.
ReachedEnclosure(r) ==
    req[r].at \in {"noBookingAround", "bookingConflictCheck", "putHandler"}

\* Request r got as far as the point-containment pass.
ReachedPointCheck(r) == req[r].at \in {"bookingConflictCheck", "putHandler"}

\* Row `row` lies inside s..e, boundaries included.
Encloses(s, e, row) == row.startDate >= s /\ row.endDate <= e

\* Instant t lies in the closed interval of row `row`.
Inside(t, row) == row.startDate <= t /\ t <= row.endDate

\* C16: an update that reaches the enclosure pass while another booking of
\* the spot lies inside the proposed range ends there as ScheduleConflict
\* with both fields flagged and nothing saved; if no other booking lies
\* inside it, the pass lets the request through.
C16_EnclosurePass ==
    (Responded(1, "put") /\ ReachedEnclosure(1))
    => /\ (\E b \in Others(1) :
              Encloses(req[1].startDate, req[1].endDate, req[1].before[b]))
          => /\ req[1].at = "noBookingAround"
             /\ req[1].outcome = "ScheduleConflict"
             /\ req[1].errors = Fields
             /\ bookings = req[1].before
       /\ (\A b \in Others(1) :
              ~Encloses(req[1].startDate, req[1].endDate, req[1].before[b]))
          => req[1].at # "noBookingAround"

\* C16 witness: the proposed range swallowed another booking and the
\* enclosure pass refused it.
C16_Witness ==
    /\ Responded(1, "put")
    /\ req[1].at = "noBookingAround"
    /\ \E b \in Others(1) :
          /\ req[1].before[b].startDate > req[1].startDate
          /\ req[1].before[b].endDate < req[1].endDate
    /\ req[1].outcome = "ScheduleConflict"
    /\ req[1].errors = Fields

\* C17: an update that reaches the point-containment pass has startDate
\* flagged exactly when its start lies in the closed interval of another
\* booking of the spot, and endDate flagged exactly when its end does; a
\* flagged field ends the request as ScheduleConflict with nothing saved.
\* Equal boundaries count: a start equal to another booking's end is
\* refused.
C17_PointContainment ==
    (Responded(1, "put") /\ ReachedPointCheck(1))
    => /\ "startDate" \in req[1].errors
             <=> \E b \in Others(1) :
                    Inside(req[1].startDate, req[1].before[b])
       /\ "endDate" \in req[1].errors
             <=> \E b \in Others(1) : Inside(req[1].endDate, req[1].before[b])
       /\ req[1].errors # {}
             => /\ req[1].at = "bookingConflictCheck"
                /\ req[1].outcome = "ScheduleConflict"
                /\ bookings = req[1].before
       /\ req[1].errors = {} => req[1].at = "putHandler"

\* C17 witness: a back-to-back update, starting the instant another booking
\* ends, was refused with startDate flagged.
C17_Witness ==
    /\ Responded(1, "put")
    /\ req[1].at = "bookingConflictCheck"
    /\ \E b \in Others(1) : req[1].startDate = req[1].before[b].endDate
    /\ req[1].outcome = "ScheduleConflict"
    /\ req[1].errors = {"startDate"}

\* Rows a and b of table `table` are of the same spot and their closed
\* intervals intersect.
Overlap(table, a, b) ==
    /\ a # b
    /\ table[a] # NoBooking
    /\ table[b] # NoBooking
    /\ table[a].spotId = table[b].spotId
    /\ table[a].startDate <= table[b].endDate
    /\ table[b].startDate <= table[a].endDate

NoOverlap(table) ==
    \A a \in BookingIds, b \in BookingIds : ~Overlap(table, a, b)

\* C19: served one at a time, a request that found no two overlapping
\* bookings of one spot leaves none, and an accepted update never
\* intersects another booking of its spot.
C19_NoOverlapPreserved ==
    /\ (req[1].pc # "idle" /\ NoOverlap(req[1].before))
       => NoOverlap(bookings)
    /\ (Responded(1, "put") /\ req[1].outcome = "Done")
       => \A b \in BookingIds :
             ~Overlap(bookings, req[1].bookingId, b)

\* C19 witness: an accepted update moved a booking in a table without
\* overlaps, next to another booking of the same spot.
C19_Witness ==
    /\ Responded(1, "put")
    /\ req[1].outcome = "Done"
    /\ NoOverlap(req[1].before)
    /\ Others(1) # {}
    /\ bookings # req[1].before

\* C20: a cancellation by the holder or the spot's owner of a booking that
\* ended strictly before now destroys it, while an update of a booking
\* that ended strictly before now is never saved.
C20_PastFrozenButCancellable ==
    /\ ( /\ Responded(1, "delete")
         /\ Target(1) # NoBooking
         /\ \/ req[1].user = Target(1).userId
            \/ req[1].user = Spot[Target(1).spotId].ownerId
         /\ Target(1).endDate < req[1].now )
       => /\ req[1].outcome = "Done"
          /\ bookings[req[1].bookingId] = NoBooking
    /\ ( /\ Responded(1, "put")
         /\ Target(1) # NoBooking
         /\ req[1].at # "bookingAuthorize"
         /\ Target(1).endDate < req[1].now )
       => /\ req[1].outcome \in {"PastEndImmutable", "InvalidDateShape"}
          /\ bookings = req[1].before

\* C20 witness: the owner cancelled a booking that had already ended.
C20_Witness ==
    /\ Responded(1, "delete")
    /\ Target(1) # NoBooking
    /\ req[1].user = Spot[Target(1).spotId].ownerId
    /\ Target(1).endDate < req[1].now
    /\ req[1].outcome = "Done"
    /\ bookings[req[1].bookingId] = NoBooking

(* ------------------------------------------------------------------ *)
(* Properties of the concurrent specification                          *)
(* ------------------------------------------------------------------ *)

\* C13 as stated: whenever a middleware of an update finds the booking
\* missing, the update ends as NotFound, also when the booking was
\* destroyed after bookingAuthorize had passed.
C13_MissingIsNotFound ==
    \A r \in Reqs :
        (Responded(r, "put") /\ ~req[r].found)
        => req[r].outcome = "NotFound"

\* C14: save() does not look at the table again: an update that passed the
\* three passes and still finds its row is saved, whatever another request
\* has written since the passes read the table.  (The race itself is the
\* witness.)
C14_NoRecheckAtSave ==
    \A r \in Reqs :
        (Responded(r, "put") /\ req[r].at = "putHandler" /\ req[r].found)
        => req[r].outcome = "Done"

\* C14 witness: two updates of different bookings of one spot started on
\* the same table without overlaps, both passed all passes, both were
\* saved, and the two bookings now overlap.
C14_Witness ==
    /\ Responded(1, "put") /\ Responded(2, "put")
    /\ req[1].outcome = "Done" /\ req[2].outcome = "Done"
    /\ req[1].bookingId # req[2].bookingId
    /\ req[1].before = req[2].before
    /\ NoOverlap(req[1].before)
    /\ Overlap(bookings, req[1].bookingId, req[2].bookingId)
    /\ bookings[req[1].bookingId].startDate = req[1].startDate
    /\ bookings[req[2].bookingId].startDate = req[2].startDate

\* C18 as stated: a request that has left its middleware chain was answered
\* with Done or with one of the failure kinds.
C18_OneTerminalOutcome ==
    req[1].pc = "done" => req[1].outcome \in FailureKinds \cup {"Done"}

====
